---- MODULE Spec2Model ----
(***************************************************************************)
(* Model of extension/icons/create_icons.py: the placeholder icon          *)
(* generator.  The state is the interpreter's position in the script, the  *)
(* locals of main and create_icon, the working directory (three files),    *)
(* standard output and the exception that ended the run, if any.  The      *)
(* environment (is PIL importable, can the TrueType font be loaded, what   *)
(* metrics does the selected font give "PA", what was in the directory     *)
(* before) is drawn in Init and stays fixed, so that two runs in a row     *)
(* see the same environment.                                               *)
(***************************************************************************)
EXTENDS Integers, Sequences, FiniteSets, TLC

VARIABLES mode, pilAvailable, ttfOK, bboxScale,
          pc, run, k, size, filename, i, img, font, bbox, origin,
          files, startFiles, prevExit, written, stdout, error

vars == <<mode, pilAvailable, ttfOK, bboxScale,
          pc, run, k, size, filename, i, img, font, bbox, origin,
          files, startFiles, prevExit, written, stdout, error>>

envVars == <<mode, pilAvailable, ttfOK, bboxScale>>
localVars == <<size, filename, i, img, font, bbox, origin>>

(* ------------------------------ bounds --------------------------------- *)

\* largest edge length a direct caller of create_icon passes
MaxSize == 40
\* the measured width of "PA" is 1..MaxScale times the font's nominal size
MaxScale == 3
\* number of consecutive runs of the generator
MaxRuns == 2

(* ----------------------------- arithmetic ------------------------------ *)

Min(a, b) == IF a <= b THEN a ELSE b
Max(a, b) == IF a >= b THEN a ELSE b
Abs(a) == IF a >= 0 THEN a ELSE -a

\* Python's int() on the quotient num/den: truncation toward zero
IntTrunc(num, den) == IF num >= 0 THEN num \div den ELSE -((-num) \div den)

\* Python's // on integers: floor division (den > 0)
FloorDiv(num, den) == num \div den

(* ------------------------------ gradient ------------------------------- *)

StartColor == <<102, 126, 234, 255>>
EndColor == <<118, 75, 162, 255>>
Transparent == <<0, 0, 0, 0>>
White == <<255, 255, 255, 255>>

\* int(a + (b - a) * i / n).  The float quotient (b-a)*i/n is within 1e-13
\* of the rational one and the rational sum is either an integer (then the
\* float computation is exact) or at least 1/n away from one, so the
\* truncation of the float equals the truncation of (a*n + (b-a)*i) / n.
GradientChannelShifted(a, b, row, n) == IntTrunc(a * n + (b - a) * (row + 1), n)
GradientChannelReversed(a, b, row, n) == IntTrunc(b * n + (a - b) * row, n)
GradientChannel(a, b, row, n) == IntTrunc(a * n + (b - a) * row, n)

GradientColor(row, n) ==
    << GradientChannel(StartColor[1], EndColor[1], row, n),
       GradientChannel(StartColor[2], EndColor[2], row, n),
       GradientChannel(StartColor[3], EndColor[3], row, n),
       255 >>

(* ------------------------------- raster -------------------------------- *)

\* A row of the raster is the one horizontal span painted on it so far
\* (x0..x1, empty when x0 > x1) and its colour; pixels outside the span
\* keep the background the image was created with.
NoImage == [mode |-> "none", size |-> <<0, 0>>, bg |-> Transparent,
            rows |-> <<>>, text |-> <<>>]

\* Image.new(mode, (w, h), color)
NewImage(m, w, h, color) ==
    [mode |-> m, size |-> <<w, h>>, bg |-> color,
     rows |-> [r \in 0..(h - 1) |-> [x0 |-> 0, x1 |-> -1, color |-> color]],
     text |-> <<>>]

\* draw.line([(xa, y), (xb, y)], fill): both end points are painted, the
\* part outside the raster is clipped
DrawLineShort(im, xa, xb, y, fill) ==
    [im EXCEPT !.rows[y] = [x0 |-> Max(0, xa),
                            x1 |-> Min(im.size[1] - 1, xb - 2),
                            color |-> fill]]
DrawLine(im, xa, xb, y, fill) ==
    [im EXCEPT !.rows[y] = [x0 |-> Max(0, xa),
                            x1 |-> Min(im.size[1] - 1, xb),
                            color |-> fill]]

\* draw.text((x, y), text, fill, font): the glyphs are composited inside the
\* measured box placed at (x, y); ink is opaque, so are the pixels it touches
DrawText(im, at, box, fill, f) ==
    [im EXCEPT !.text = <<[x |-> at[1] + box[1], y |-> at[2] + box[2],
                           w |-> box[3] - box[1], h |-> box[4] - box[2],
                           fill |-> fill, font |-> f]>>]

InText(im, x, y) ==
    \E t \in 1..Len(im.text) :
        /\ im.text[t].x <= x /\ x < im.text[t].x + im.text[t].w
        /\ im.text[t].y <= y /\ y < im.text[t].y + im.text[t].h

Pixel(im, x, y) ==
    IF InText(im, x, y) THEN im.text[1].fill
    ELSE IF im.rows[y].x0 <= x /\ x <= im.rows[y].x1 THEN im.rows[y].color
    ELSE im.bg

(* -------------------------------- fonts -------------------------------- *)

NoFont == [kind |-> "none", size |-> 0]
DefaultFont == [kind |-> "default", size |-> 10]

\* ImageFont.truetype(path, font_size) raises when the file or the font
\* engine is missing, and for a size of 0
TruetypeLoads(fontSize) == ttfOK /\ fontSize > 0

\* lines 26-32: the result of the try/except around the font load
FontLoadRaises(fontSize) ==
    IF TruetypeLoads(fontSize)
    THEN [pc |-> "measure", font |-> [kind |-> "truetype", size |-> fontSize],
          error |-> "none"]
    ELSE [pc |-> "crashed", font |-> NoFont, error |-> "FontError"]
FontLoad(fontSize) ==
    IF TruetypeLoads(fontSize)
    THEN [pc |-> "measure", font |-> [kind |-> "truetype", size |-> fontSize],
          error |-> "none"]
    ELSE [pc |-> "measure", font |-> DefaultFont, error |-> "none"]

\* draw.textbbox((0, 0), "PA", font): (left, top, right, bottom).  The
\* metrics belong to the font source; bboxScale stands for them.
TextBBox(f) ==
    <<0, f.size \div 4, bboxScale * f.size, (f.size \div 4) + f.size>>

(* -------------------------------- files -------------------------------- *)

TargetsCrossed == << [size |-> 48, name |-> "icon16.png"],
                     [size |-> 16, name |-> "icon48.png"],
                     [size |-> 128, name |-> "icon128.png"] >>
Targets == << [size |-> 16, name |-> "icon16.png"],
              [size |-> 48, name |-> "icon48.png"],
              [size |-> 128, name |-> "icon128.png"] >>

Filenames == {Targets[t].name : t \in 1..Len(Targets)}

Absent == [kind |-> "absent", body |-> <<>>]
Stale == [kind |-> "stale", body |-> <<"stale">>]
Partial == [kind |-> "partial", body |-> <<>>]

InitialFiles == { [f \in Filenames |-> Absent], [f \in Filenames |-> Stale] }

DigitChar(d) ==
    CASE d = 0 -> "0" [] d = 1 -> "1" [] d = 2 -> "2" [] d = 3 -> "3"
      [] d = 4 -> "4" [] d = 5 -> "5" [] d = 6 -> "6" [] d = 7 -> "7"
      [] d = 8 -> "8" [] d = 9 -> "9"

\* str(n) for n >= 0, as the sequence of its decimal digits
RECURSIVE FormatInt(_)
FormatInt(n) ==
    IF n < 10 THEN <<DigitChar(n)>>
    ELSE FormatInt(n \div 10) \o <<DigitChar(n % 10)>>

\* f"Placeholder icon {size}x{size}"
StubText(n) == <<"Placeholder icon ">> \o FormatInt(n) \o <<"x">> \o FormatInt(n)

\* open(filename, 'w') / img.save(filename, 'PNG'): the file is truncated
\* and holds what this write put there
AppendToFile(prior, data) ==
    IF prior.kind = "absent" THEN data
    ELSE [kind |-> data.kind, body |-> prior.body \o data.body]
WriteFile(prior, data) == data

\* what a failed write leaves behind: nothing touched (the open failed) or
\* a truncated file (the write failed after the open)
FailedWrite(prior) == {prior, Partial}

\* an exception raised by a write is not handled anywhere: the run ends
WriteErrorSwallowed(stubPath, t) ==
    IF t < Len(Targets) THEN (IF stubPath THEN "stub" ELSE "call") ELSE "done"
WriteErrorPc(stubPath, t) == "crashed"

\* line 59: the return that ends the text-stub path
StubExitFallsThrough == "call"
StubExit == "done"

(* ---------------------------- initial state ---------------------------- *)

Modes == {"script", "main", "create_icon"}

Init ==
    /\ mode \in Modes
    /\ pilAvailable \in BOOLEAN
    /\ ttfOK \in BOOLEAN
    /\ bboxScale \in 1..MaxScale
    \* a caller can only hold main or create_icon when line 7 succeeded;
    \* main is then called with the capability present or (since) removed,
    \* create_icon does not probe it
    /\ (mode = "create_icon" => pilAvailable)
    /\ pc = (CASE mode = "script" -> "import"
               [] mode = "main" -> "main"
               [] mode = "create_icon" -> "enter")
    /\ run = 1
    /\ k = 1
    /\ IF mode = "create_icon"
       THEN size \in 1..MaxSize /\ filename \in Filenames
       ELSE size = 0 /\ filename = ""
    /\ i = 0
    /\ img = NoImage
    /\ font = NoFont
    /\ bbox = <<0, 0, 0, 0>>
    /\ origin = <<0, 0>>
    /\ files \in InitialFiles
    /\ startFiles = files
    /\ prevExit = "none"
    /\ written = <<>>
    /\ stdout = <<>>
    /\ error = "none"

(* ------------------------------- actions ------------------------------- *)

\* line 7: the module-level import, executed when the script is loaded
ModuleImport ==
    /\ pc = "import"
    /\ IF pilAvailable
       THEN pc' = "main" /\ error' = error
       ELSE pc' = "crashed" /\ error' = "ImportError"
    /\ UNCHANGED <<envVars, localVars, run, k, files, startFiles, prevExit,
                   written, stdout>>

\* lines 49-54: main probes the imaging library once
MainProbe ==
    /\ pc = "main"
    /\ k' = 1
    /\ IF pilAvailable
       THEN pc' = "call" /\ stdout' = stdout
       ELSE /\ pc' = "stub"
            /\ stdout' = Append(stdout, <<"PIL/Pillow not available">>)
    /\ UNCHANGED <<envVars, localVars, run, files, startFiles, prevExit,
                   written, error>>

\* lines 56-59: one iteration of the placeholder loop, and the return
WriteStub ==
    /\ pc = "stub"
    /\ LET t == Targets[k] IN
       \/ /\ files' = [files EXCEPT
                         ![t.name] = WriteFile(@, [kind |-> "text",
                                                   body |-> StubText(t.size)])]
          /\ written' = Append(written, t.name)
          /\ k' = IF k < Len(Targets) THEN k + 1 ELSE 1
          /\ pc' = IF k < Len(Targets) THEN "stub" ELSE StubExit
          /\ error' = error
       \/ /\ \E left \in FailedWrite(files[t.name]) :
                files' = [files EXCEPT ![t.name] = left]
          /\ written' = written
          /\ k' = IF WriteErrorPc(TRUE, k) = "stub" THEN k + 1 ELSE k
          /\ pc' = WriteErrorPc(TRUE, k)
          /\ error' = "OSError"
    /\ UNCHANGED <<envVars, localVars, run, startFiles, prevExit, stdout>>

\* lines 62-64 and 10-13: main calls create_icon for the next target, or a
\* caller enters it with its own arguments; the raster is allocated
CreateIconEnter ==
    /\ \/ /\ pc = "call"
          /\ size' = Targets[k].size
          /\ filename' = Targets[k].name
       \/ /\ pc = "enter"
          /\ UNCHANGED <<size, filename>>
    /\ img' = NewImage("RGBA", size', size', Transparent)
    /\ i' = 0
    /\ font' = NoFont
    /\ bbox' = <<0, 0, 0, 0>>
    /\ origin' = <<0, 0>>
    /\ pc' = "gradient"
    /\ UNCHANGED <<envVars, run, k, files, startFiles, prevExit, written,
                   stdout, error>>

\* lines 16-23: one iteration of the gradient loop
GradientRow ==
    /\ pc = "gradient"
    /\ i < size
    /\ img' = DrawLine(img, 0, size, i, GradientColor(i, size))
    /\ i' = i + 1
    /\ pc' = IF i + 1 < size THEN "gradient" ELSE "font"
    /\ UNCHANGED <<envVars, size, filename, font, bbox, origin, run, k, files,
                   startFiles, prevExit, written, stdout, error>>

\* lines 26-32: load the bold face at size // 2, or the default font
LoadFont ==
    /\ pc = "font"
    /\ LET r == FontLoad(FloorDiv(size, 2)) IN
         /\ pc' = r.pc
         /\ font' = r.font
         /\ error' = IF r.error = "none" THEN error ELSE r.error
    /\ UNCHANGED <<envVars, size, filename, i, img, bbox, origin, run, k,
                   files, startFiles, prevExit, written, stdout>>

\* lines 35-41: measure "PA" and centre it
MeasureText ==
    /\ pc = "measure"
    /\ bbox' = TextBBox(font)
    /\ origin' = << FloorDiv(size - (bbox'[3] - bbox'[1]), 2),
                    FloorDiv(size - (bbox'[4] - bbox'[2]), 2) >>
    /\ pc' = "text"
    /\ UNCHANGED <<envVars, size, filename, i, img, font, run, k, files,
                   startFiles, prevExit, written, stdout, error>>

\* line 43: draw the label in opaque white
DrawLabel ==
    /\ pc = "text"
    /\ img' = DrawText(img, origin, bbox, White, font)
    /\ pc' = "save"
    /\ UNCHANGED <<envVars, size, filename, i, font, bbox, origin, run, k,
                   files, startFiles, prevExit, written, stdout, error>>

\* lines 45-47: write the PNG, print the confirmation, return to the caller
SaveImage ==
    /\ pc = "save"
    /\ \/ /\ files' = [files EXCEPT
                         ![filename] = WriteFile(@, [kind |-> "png",
                                                     body |-> <<img>>])]
          /\ written' = Append(written, filename)
          /\ stdout' = Append(stdout, <<"Created", filename, size, size>>)
          /\ error' = error
          /\ IF mode = "create_icon"
             THEN pc' = "done" /\ k' = k
             ELSE /\ pc' = IF k < Len(Targets) THEN "call" ELSE "done"
                  /\ k' = IF k < Len(Targets) THEN k + 1 ELSE 1
          \* the locals of create_icon die with the call
          /\ img' = NoImage
          /\ font' = NoFont
          /\ bbox' = <<0, 0, 0, 0>>
          /\ origin' = <<0, 0>>
          /\ i' = 0
          /\ UNCHANGED <<size, filename>>
       \/ /\ \E left \in FailedWrite(files[filename]) :
                files' = [files EXCEPT ![filename] = left]
          /\ error' = "OSError"
          /\ pc' = IF mode = "create_icon" THEN "crashed"
                   ELSE WriteErrorPc(FALSE, k)
          /\ k' = IF pc' = "call" THEN k + 1 ELSE k
          /\ UNCHANGED <<localVars, written, stdout>>
    /\ UNCHANGED <<envVars, run, startFiles, prevExit>>

\* the generator is started again in the same environment
Rerun ==
    /\ pc \in {"done", "crashed"}
    /\ run < MaxRuns
    /\ run' = run + 1
    /\ prevExit' = IF error = "none" THEN "ok" ELSE error
    /\ startFiles' = files
    /\ pc' = (CASE mode = "script" -> "import"
                [] mode = "main" -> "main"
                [] mode = "create_icon" -> "enter")
    /\ k' = 1
    /\ i' = 0
    /\ img' = NoImage
    /\ font' = NoFont
    /\ bbox' = <<0, 0, 0, 0>>
    /\ origin' = <<0, 0>>
    /\ written' = <<>>
    /\ stdout' = <<>>
    /\ error' = "none"
    /\ UNCHANGED <<envVars, size, filename, files>>

Next ==
    \/ ModuleImport
    \/ MainProbe
    \/ WriteStub
    \/ CreateIconEnter
    \/ GradientRow
    \/ LoadFont
    \/ MeasureText
    \/ DrawLabel
    \/ SaveImage
    \/ Rerun

Spec == Init /\ [][Next]_vars

(* ------------------------------- claims -------------------------------- *)

Terminated == pc \in {"done", "crashed"}
MainModes == {"script", "main"}
LoopDone == img.mode = "RGBA" /\ i = size
Painted(r) == img.rows[r].color

\* C1: run as the entry point without PIL, the program ends normally with
\* no error and the three files hold "Placeholder icon 16x16",
\* "Placeholder icon 48x48" and "Placeholder icon 128x128".
C1_EntryPointWritesStubs ==
    (mode = "script" /\ ~pilAvailable /\ Terminated /\ error # "OSError")
    => /\ pc = "done"
       /\ error = "none"
       /\ files["icon16.png"] =
            [kind |-> "text",
             body |-> <<"Placeholder icon ", "1", "6", "x", "1", "6">>]
       /\ files["icon48.png"] =
            [kind |-> "text",
             body |-> <<"Placeholder icon ", "4", "8", "x", "4", "8">>]
       /\ files["icon128.png"] =
            [kind |-> "text",
             body |-> <<"Placeholder icon ", "1", "2", "8", "x", "1", "2", "8">>]

\* C2: for the edge lengths 16, 48 and 128 the colour of the last row is
\* within 1 of the end colour (118, 75, 162, 255) in every channel.
C2_LastRowNearEnd ==
    (LoopDone /\ size \in {16, 48, 128})
    => \A c \in 1..4 : Abs(Painted(size - 1)[c] - EndColor[c]) <= 1

\* C3: for every edge length the colour of row 0 is exactly the start
\* colour (102, 126, 234, 255).
C3_FirstRowIsStart ==
    (img.mode = "RGBA" /\ i >= 1) => Painted(0) = <<102, 126, 234, 255>>

C3_Witness ==
    /\ mode = "create_icon" /\ size = 7 /\ i = 3
    /\ Painted(0) = <<102, 126, 234, 255>>
    /\ Painted(2) # Painted(0)

\* C4: with PIL present and no failed write, main ends with the three files
\* present, each an RGBA image of exactly its own size.
C4_ThreeImagesOfOwnSize ==
    (mode \in MainModes /\ pilAvailable /\ pc = "done")
    => /\ files["icon16.png"].kind = "png"
       /\ files["icon16.png"].body[1].mode = "RGBA"
       /\ files["icon16.png"].body[1].size = <<16, 16>>
       /\ files["icon48.png"].kind = "png"
       /\ files["icon48.png"].body[1].mode = "RGBA"
       /\ files["icon48.png"].body[1].size = <<48, 48>>
       /\ files["icon128.png"].kind = "png"
       /\ files["icon128.png"].body[1].mode = "RGBA"
       /\ files["icon128.png"].body[1].size = <<128, 128>>

C4_Witness ==
    /\ mode = "script" /\ pilAvailable /\ pc = "done" /\ run = 1
    /\ written = <<"icon16.png", "icon48.png", "icon128.png">>
    /\ DOMAIN files["icon128.png"].body[1].rows = 0..127

\* C5: a second run in the same environment, after a first run that
\* completed, leaves the files exactly as the first run left them.
C5_SecondRunSameFiles ==
    (run >= 2 /\ prevExit = "ok" /\ pc = "done") => files = startFiles

C5_Witness ==
    /\ run = 2 /\ prevExit = "ok" /\ pc = "done" /\ mode = "main"
    /\ Len(written) = 3
    /\ files = startFiles
    /\ files["icon48.png"].kind \in {"png", "text"}

\* C6: a failed load of the TrueType font is replaced by the default font,
\* is never raised, and measurement, drawing and the PNG write follow.
C6_FontFailureRecovered ==
    [][ /\ error' # "FontError"
        /\ pc = "font" => /\ pc' = "measure"
                          /\ error' = error
                          /\ (~ttfOK => font' = DefaultFont)
        /\ pc = "measure" => pc' = "text" /\ bbox' = TextBBox(font)
        /\ pc = "text" => /\ pc' = "save"
                          /\ Len(img'.text) = 1
                          /\ img'.text[1].font = font
        /\ pc = "save" => \/ files'[filename].kind = "png"
                          \/ error' = "OSError" ]_vars

C6_Witness ==
    /\ ~ttfOK /\ mode = "create_icon" /\ pc = "done" /\ error = "none"
    /\ files[filename].kind = "png"
    /\ files[filename].body[1].text[1].font = DefaultFont

\* the content main writes for target t in this environment
IsNewContent(f, t) ==
    IF pilAvailable
    THEN f.kind = "png" /\ f.body[1].size = <<Targets[t].size, Targets[t].size>>
    ELSE f.kind = "text" /\ f.body = StubText(Targets[t].size)

\* C7: a failed write ends the run at that file: the files before it hold
\* their new contents, the files after it are not written.
C7_WriteFailureEndsRun ==
    error = "OSError"
    => /\ pc = "crashed"
       /\ mode \in MainModes
          => /\ written = [t \in 1..(k - 1) |-> Targets[t].name]
             /\ \A t \in 1..(k - 1) : IsNewContent(files[Targets[t].name], t)
             /\ \A t \in (k + 1)..Len(Targets) :
                    files[Targets[t].name] = startFiles[Targets[t].name]

C7_Witness ==
    /\ error = "OSError" /\ pc = "crashed" /\ mode = "main" /\ k = 2
    /\ files["icon16.png"].kind \in {"png", "text"}
    /\ files["icon48.png"] = Partial
    /\ files["icon128.png"] = Stale

ImageSteps == {"call", "gradient", "font", "measure", "text", "save"}

\* C8: within one run of main the files written so far are all text stubs
\* or all PNG images, and without PIL no image step is ever executed.
C8_AllOrNothing ==
    mode \in MainModes
    => /\ \/ \A n \in 1..Len(written) : files[written[n]].kind = "text"
          \/ \A n \in 1..Len(written) : files[written[n]].kind = "png"
       /\ ~pilAvailable => (pc \notin ImageSteps /\ img = NoImage)

C8_Witness ==
    /\ mode = "main" /\ ~pilAvailable /\ pc = "stub"
    /\ written = <<"icon16.png", "icon48.png">>
    /\ files["icon48.png"].kind = "text"
    /\ files["icon128.png"].kind # "text"

\* C9: after the gradient loop and when the image is saved, every pixel is
\* opaque and none keeps the initial transparent value.
C9_OpaqueWhenSaved ==
    (pc \in {"font", "save"})
    => \A y \in 0..(size - 1) : \A x \in 0..(size - 1) :
           /\ Pixel(img, x, y)[4] = 255
           /\ Pixel(img, x, y) # <<0, 0, 0, 0>>

C9_Witness ==
    /\ pc = "save" /\ size = 128
    /\ Pixel(img, 0, 0) = StartColor
    /\ Pixel(img, 127, 127)[4] = 255
    /\ \E x \in 0..127 : Pixel(img, x, 64) = White

\* C10: every gradient channel lies between its start and end value, and
\* down the rows red never decreases while green and blue never increase.
C10_ChannelsBoundedMonotone ==
    img.mode = "RGBA"
    => /\ \A r \in 0..(i - 1) :
            /\ Painted(r)[1] \in 102..118
            /\ Painted(r)[2] \in 75..126
            /\ Painted(r)[3] \in 162..234
       /\ \A r \in 1..(i - 1) :
            /\ Painted(r - 1)[1] <= Painted(r)[1]
            /\ Painted(r - 1)[2] >= Painted(r)[2]
            /\ Painted(r - 1)[3] >= Painted(r)[3]

C10_Witness ==
    /\ LoopDone /\ size = 48
    /\ Painted(47)[1] > Painted(0)[1]
    /\ Painted(47)[2] < Painted(0)[2]
    /\ Painted(47)[3] < Painted(0)[3]

====
